---- MODULE Spec2Model ----
(***************************************************************************)
(* State-synchronisation engine of homebridge-eo-mini: one ChargerAccessory *)
(* on the platform's command queue, the remote EO API as a nondeterministic *)
(* responder, and the host (HomeKit) characteristics the accessory updates. *)
(*                                                                          *)
(* One step of the model is one uninterruptible piece of JavaScript: a      *)
(* handler or timer callback up to its return, or the continuation of an    *)
(* async task between two awaits.  Continuations that the runtime runs as   *)
(* microtasks (the queue starting its next task, a task resuming on an      *)
(* already settled promise) take priority over handlers and timers.         *)
(***************************************************************************)
EXTENDS Integers, Sequences, FiniteSets, TLC

\* ---- bounds of the model ------------------------------------------------
MaxQueue == 2          \* tasks waiting in the queue
MaxTimers == 1         \* pending 150 ms revert timers
MaxCalls == 2          \* request() calls of the client that may overlap

\* ---- values of the characteristics --------------------------------------
UNSECURED == "UNSECURED"
SECURED == "SECURED"
UNKNOWN == "UNKNOWN"
CONTACT_DETECTED == "CONTACT_DETECTED"
CONTACT_NOT_DETECTED == "CONTACT_NOT_DETECTED"

LockValues == {UNSECURED, SECURED}
StateNames == {"LockCurrentState", "LockTargetState", "On", "ContactSensorState"}

VARIABLES
  states,              \* this.states
  device,              \* this.device (the snapshot the accessory computes from)
  session,             \* this.session: <<>> is null, <<[IsPaused |-> b]>> a session
  sessionAlive,        \* this.sessionAlive
  resettingOutletOff,  \* this.resettingOutletOff
  revertTimers,        \* setTimeout callbacks of setOutletOn not yet fired
  ctxDevice,           \* accessory.context.device
  ctxNewer,            \* accessory.context.lastUpdated > this.lastUpdated
  queue,               \* tasks waiting in platform.queue
  running,             \* tasks of platform.queue whose body is executing
  host,                \* per characteristic, the value last sent to the host
  notified,            \* the characteristics that operation sent to the host
  op,                  \* the accessory's last operation that had an effect
  rejected,            \* that operation made a queued task's promise reject
  stale,               \* of "device" and "ctx", the snapshots fetched before the
                       \* last successful enable/disable call was answered
  committed,           \* <<v>> once the task of a successful lock command has
                       \* stored LockCurrentState = v, <<>> otherwise
  authSession,         \* client._authSession: <<>> is undefined
  calls                \* the request() calls of the client, one per slot

vars == <<states, device, session, sessionAlive, resettingOutletOff, revertTimers,
          ctxDevice, ctxNewer, queue, running, host, notified, op, rejected,
          stale, committed, authSession, calls>>

\* the state of the accessory and the state of the API client
accessoryVars == <<states, device, session, sessionAlive, resettingOutletOff, revertTimers,
                   ctxDevice, ctxNewer, queue, running, host, notified, op, rejected,
                   stale, committed>>

clientVars == <<authSession, calls>>

\* ---- the command queue (platform.queue, a p-queue) ------------------------
Concurrency2 == 1 + 1

Concurrency == 1

\* seq is the rank of the task, by admission, among the tasks not yet finished
Task(seq, kind, value, api, status, pc) ==
  [seq |-> seq, kind |-> kind, value |-> value, api |-> api, status |-> status, pc |-> pc]

CheckTask(seq) == Task(seq, "check", "none", "session", "none", "queued")

Dequeue(q) == [task |-> Head(q), rest |-> Tail(q)]

\* the body of a task up to its first await
Begin(t) ==
  IF t.kind = "check" THEN [t EXCEPT !.pc = "session"] ELSE [t EXCEPT !.pc = "promise"]

\* queue.size + queue.pending
QueueLoad == Len(queue) + Cardinality(running)

NextSeq == QueueLoad + 1

\* queue.add(task): the task starts at once when a slot is free
Add(t) ==
  IF queue = <<>> /\ Cardinality(running) < Concurrency
    THEN /\ running' = running \cup {Begin(t)}
         /\ queue' = queue
    ELSE /\ queue' = Append(queue, t)
         /\ running' = running

\* task r leaves the queue: the ranks of the later tasks move up
Rerank(t, r) == IF t.seq > r.seq THEN [t EXCEPT !.seq = @ - 1] ELSE t

Finish(r) ==
  /\ running' = {Rerank(t, r) : t \in running \ {r}}
  /\ queue' = [i \in 1..Len(queue) |-> Rerank(queue[i], r)]

\* a continuation the runtime runs before any handler or timer
MicrotaskPending ==
  \/ queue # <<>> /\ Cardinality(running) < Concurrency
  \/ \E r \in running : r.kind # "check" /\ r.status \in {"ok", "fail"}

CanAdmit == Len(queue) < MaxQueue

\* ---- updateState ---------------------------------------------------------
\* a notification of the host: fresh when the value differs from the value the
\* host was last sent for that characteristic
Sent(h, state, value) == [state |-> state, fresh |-> h[state] # <<value>>]

\* s = [states, host, notified]
updateStateNoForced(s, service, state, value, skipCharacteristicUpdate, forced) ==
  IF value = s.states[state]
    THEN s
    ELSE [states |-> [s.states EXCEPT ![state] = value],
          host |-> IF skipCharacteristicUpdate THEN s.host
                   ELSE [s.host EXCEPT ![state] = <<value>>],
          notified |-> IF skipCharacteristicUpdate THEN s.notified
                       ELSE s.notified \cup {Sent(s.host, state, value)}]

updateState(s, service, state, value, skipCharacteristicUpdate, forced) ==
  IF value = s.states[state] /\ ~forced
    THEN s
    ELSE [states |-> [s.states EXCEPT ![state] = value],
          host |-> IF skipCharacteristicUpdate THEN s.host
                   ELSE [s.host EXCEPT ![state] = <<value>>],
          notified |-> IF skipCharacteristicUpdate THEN s.notified
                       ELSE s.notified \cup {Sent(s.host, state, value)}]

Acc == [states |-> states, host |-> host, notified |-> {}]

SetAcc(s) == states' = s.states /\ host' = s.host /\ notified' = s.notified

Notified(state) == \E n \in notified : n.state = state

\* ---- reconciliation --------------------------------------------------------
computeLockCurrentStateInverted(dev) == IF dev.isDisabled # 0 THEN UNSECURED ELSE SECURED

computeLockCurrentState(dev) == IF dev.isDisabled = 1 THEN SECURED ELSE UNSECURED

computeOutletOnNoPause(sess) == sess # <<>>

computeOutletOn(sess) == IF sess = <<>> THEN FALSE ELSE ~sess[1].IsPaused

computeContactSensorState(alive) ==
  IF alive THEN CONTACT_DETECTED ELSE CONTACT_NOT_DETECTED

computeAll(s, dev, sess, alive) ==
  LET s1 == updateState(s, "lock", "LockCurrentState", computeLockCurrentState(dev), FALSE, FALSE)
      s2 == updateState(s1, "lock", "LockTargetState", computeLockCurrentState(dev), TRUE, FALSE)
      s3 == updateState(s2, "outlet", "On", computeOutletOn(sess), FALSE, FALSE)
  IN  updateState(s3, "contactSensor", "ContactSensorState",
                  computeContactSensorState(alive), FALSE, FALSE)

Op(name, arg) == [name |-> name, arg |-> arg]

\* ---- construction ----------------------------------------------------------
\* ---- the API client (EoMiniApi) ---------------------------------------------
\* authSession is <<>> or <<[expired |-> b]>>, b being `expires > new Date()`
\* turned false by the passing of time
Slots == 1..MaxCalls

\* one request() call: where it is, the cache as it found it, the token and
\* endpoint requests it has sent, the Authorization header it attached, how it
\* ended, and whether the previous call of the slot ended with AuthError
Call(pc, cached, auths, sent, header, expect, error, retry) ==
  [pc |-> pc, cached |-> cached, auths |-> auths, sent |-> sent, header |-> header,
   expect |-> expect, error |-> error, retry |-> retry]

IdleCall == Call("idle", "none", 0, 0, "none", FALSE, "none", FALSE)

isAuthSessionValidReversed(a) == a = <<>> \/ a[1].expired

isAuthSessionValid(a) == a = <<>> \/ ~a[1].expired

authSessionHeader(a) ==
  IF ~isAuthSessionValid(a) THEN "none"
  ELSE IF a = <<>> THEN "none" ELSE "Bearer"

Init ==
  /\ states = [LockCurrentState |-> UNSECURED, LockTargetState |-> UNSECURED,
               On |-> FALSE, ContactSensorState |-> CONTACT_NOT_DETECTED]
  /\ device \in [isDisabled : {0, 1}]
  /\ ctxDevice = device
  /\ ctxNewer = FALSE
  /\ session = <<>>
  /\ sessionAlive = FALSE
  /\ resettingOutletOff = FALSE
  /\ revertTimers = 0
  /\ queue = <<>>
  /\ running = {Begin(CheckTask(1))}
  /\ host = [k \in StateNames |-> <<>>]
  /\ notified = {}
  /\ op = Op("constructor", <<>>)
  /\ rejected = FALSE
  /\ stale = {}
  /\ committed = <<>>
  /\ authSession = <<>>
  /\ calls = [c \in Slots |-> IdleCall]

\* what a step with an effect records; a handler that returns early leaves
\* every variable as it is
DidWith(name, arg) == op' = Op(name, arg) /\ rejected' = FALSE

Did(name) == DidWith(name, <<>>)

\* ---- checkSession ----------------------------------------------------------
checkSession == Add(CheckTask(NextSeq))

\* the tasks not yet finished
Live == running \cup {queue[i] : i \in 1..Len(queue)}

\* ---- the 1 s polling interval of the accessory -----------------------------
TickSkipsSizeOnly == Len(queue) > 0 \/ ~ctxNewer

TickSkips == QueueLoad > 0 \/ ~ctxNewer

Tick ==
  /\ UNCHANGED clientVars
  /\ ~MicrotaskPending
  /\ IF TickSkips
       THEN UNCHANGED vars
       ELSE /\ Did("tick")
            /\ device' = ctxDevice
            /\ ctxNewer' = FALSE
            /\ checkSession
            /\ notified' = {}
            /\ stale' = (stale \ {"device"}) \cup (IF "ctx" \in stale THEN {"device"} ELSE {})
            /\ UNCHANGED <<states, host, session, sessionAlive, resettingOutletOff,
                           revertTimers, ctxDevice, committed>>

\* ---- platform.updateDevices: a fresh snapshot from the device list ---------
\* resp is <<>> when the list request fails
UpdateDevices(resp) ==
  /\ UNCHANGED clientVars
  /\ ~MicrotaskPending
  /\ IF resp = <<>>
       THEN UNCHANGED vars
       ELSE /\ ctxDevice' = resp[1]
            /\ ctxNewer' = TRUE
            /\ stale' = stale \ {"ctx"}
            /\ UNCHANGED <<states, host, device, session, sessionAlive, resettingOutletOff,
                           revertTimers, queue, running, notified, op, rejected, committed>>

\* ---- the lock axis ---------------------------------------------------------
LockApi(value) == IF value = SECURED THEN "miniDisable" ELSE "miniEnable"

\* the early return of setLockTargetState
LockIgnored(value) == value = states.LockTargetState \/ value = states.LockCurrentState

SetLockTargetState(value) ==
  /\ UNCHANGED clientVars
  /\ ~MicrotaskPending
  /\ IF LockIgnored(value)
       THEN UNCHANGED vars
       ELSE /\ CanAdmit
            /\ DidWith("setLockTargetState", <<value>>)
            /\ SetAcc(updateState(Acc, "lock", "LockTargetState", value, FALSE, FALSE))
            /\ Add(Task(NextSeq, "lock", value, LockApi(value), "pending", "queued"))
            /\ committed' = <<>>
            /\ UNCHANGED <<device, session, sessionAlive, resettingOutletOff,
                           revertTimers, ctxDevice, ctxNewer, stale>>

\* ---- the power axis --------------------------------------------------------
PowerApiSwapped(value) == IF value THEN "sessionPause" ELSE "sessionUnpause"

PowerApi(value) == IF value THEN "sessionUnpause" ELSE "sessionPause"

\* the branch setOutletOn(value) takes when the stored On is on
OutletBranch(value, on) ==
  IF ~sessionAlive
    THEN (IF resettingOutletOff THEN "suppressed" ELSE "revert")
    ELSE (IF value = on THEN "ignored" ELSE "command")

SetOutletOn(value) ==
  LET branch == OutletBranch(value, states.On) IN
  /\ UNCHANGED clientVars
  /\ ~MicrotaskPending
  /\ CASE branch = "suppressed" ->
            /\ Did("setOutletOn")
            /\ resettingOutletOff' = FALSE
            /\ notified' = {}
            /\ UNCHANGED <<states, host, revertTimers, queue, running>>
       [] branch = "revert" ->
            /\ revertTimers < MaxTimers
            /\ Did("setOutletOn")
            /\ resettingOutletOff' = TRUE
            /\ revertTimers' = revertTimers + 1
            /\ notified' = {}
            /\ UNCHANGED <<states, host, queue, running>>
       [] branch = "ignored" ->
            /\ UNCHANGED <<states, host, resettingOutletOff, revertTimers,
                           queue, running, notified, op, rejected>>
       [] branch = "command" ->
            /\ CanAdmit
            /\ Did("setOutletOn")
            /\ SetAcc(updateState(Acc, "outlet", "On", value, FALSE, FALSE))
            /\ Add(Task(NextSeq, "power", "none", PowerApi(value), "pending", "queued"))
            /\ UNCHANGED <<resettingOutletOff, revertTimers>>
  /\ UNCHANGED <<device, session, sessionAlive, ctxDevice, ctxNewer, stale, committed>>

\* the 150 ms timer of setOutletOn: the stored On goes to false without a
\* notification, then setValue(false) sets the host's characteristic and
\* enters setOutletOn(false) again
RevertTimer ==
  LET s1 == updateState(Acc, "outlet", "On", FALSE, TRUE, FALSE)
      branch == OutletBranch(FALSE, s1.states.On)
  IN
  /\ UNCHANGED clientVars
  /\ ~MicrotaskPending
  /\ revertTimers > 0
  /\ Did("revertTimer")
  /\ states' = s1.states
  /\ host' = [s1.host EXCEPT !["On"] = <<FALSE>>]
  /\ notified' = s1.notified \cup {Sent(s1.host, "On", FALSE)}
  /\ resettingOutletOff' = (branch = "revert" \/ (branch = "ignored" /\ resettingOutletOff))
  /\ revertTimers' = IF branch = "revert" THEN revertTimers ELSE revertTimers - 1
  /\ UNCHANGED <<device, session, sessionAlive, ctxDevice, ctxNewer, queue, running,
                 stale, committed>>

\* ---- the remote API answers -------------------------------------------------
Sessions == {<<>>, <<[IsPaused |-> TRUE]>>, <<[IsPaused |-> FALSE]>>}
Snapshots == [isDisabled : {0, 1}]

\* client.session() settles for a running checkSession task: the task stores
\* the session and calls client.sessionAlive(), or the rejection leaves the task
SessionSettles(r, ok, resp) ==
  /\ UNCHANGED clientVars
  /\ ~MicrotaskPending
  /\ r \in running /\ r.kind = "check" /\ r.pc = "session"
  /\ op' = Op("session", <<>>)
  /\ IF ok
       THEN /\ session' = resp
            /\ running' = (running \ {r}) \cup {[r EXCEPT !.pc = "alive", !.api = "sessionAlive"]}
            /\ queue' = queue
            /\ rejected' = FALSE
       ELSE /\ session' = session
            /\ Finish(r)
            /\ rejected' = TRUE
  /\ notified' = {}
  /\ UNCHANGED <<states, host, device, sessionAlive, resettingOutletOff, revertTimers,
                 ctxDevice, ctxNewer, stale, committed>>

\* how a request() call of the client can end
RequestOutcomes == {"returned", "AuthError", "Error"}

clientSessionAliveNoCatch(outcome) == [threw |-> outcome # "returned", value |-> TRUE]

\* client.sessionAlive() on the outcome of its request() call
clientSessionAlive(outcome) == [threw |-> FALSE, value |-> outcome = "returned"]

\* client.sessionAlive() settles: the task stores the flag and runs computeAll;
\* a rejection would leave the task as the one of client.session() does
AliveSettles(r, outcome) ==
  LET alive == clientSessionAlive(outcome) IN
  /\ UNCHANGED clientVars
  /\ ~MicrotaskPending
  /\ r \in running /\ r.kind = "check" /\ r.pc = "alive"
  /\ IF alive.threw
       THEN /\ op' = Op("sessionAlive", <<>>)
            /\ rejected' = TRUE
            /\ notified' = {}
            /\ UNCHANGED <<states, host, sessionAlive>>
       ELSE /\ DidWith("checkSession", <<states.LockCurrentState>>)
            /\ sessionAlive' = alive.value
            /\ SetAcc(computeAll(Acc, device, session, alive.value))
  /\ Finish(r)
  /\ committed' = <<>>
  /\ UNCHANGED <<device, session, resettingOutletOff, revertTimers, ctxDevice, ctxNewer,
                 stale>>

\* the promise of doEnableOrDisable / doPauseOrUnpause settles, wherever the
\* task that awaits it is
Settled(t, ok) == [t EXCEPT !.status = IF ok THEN "ok" ELSE "fail"]

\* every snapshot held when an enable/disable call succeeds was fetched before
StaleAfter(t, ok) == IF t.kind = "lock" /\ ok THEN {"device", "ctx"} ELSE stale

CommandSettles(seq, ok) ==
  /\ UNCHANGED clientVars
  /\ ~MicrotaskPending
  /\ \/ /\ \E r \in running :
             /\ r.seq = seq /\ r.status = "pending"
             /\ running' = (running \ {r}) \cup {Settled(r, ok)}
             /\ stale' = StaleAfter(r, ok)
        /\ queue' = queue
     \/ /\ \E i \in 1..Len(queue) :
             /\ queue[i].seq = seq /\ queue[i].status = "pending"
             /\ queue' = [queue EXCEPT ![i] = Settled(queue[i], ok)]
             /\ stale' = StaleAfter(queue[i], ok)
        /\ running' = running
  /\ UNCHANGED <<states, host, device, session, sessionAlive, resettingOutletOff,
                 revertTimers, ctxDevice, ctxNewer, notified, op, rejected, committed>>

\* ---- continuations -----------------------------------------------------------
\* the queue starts its next task when a slot is free
StartNext ==
  /\ UNCHANGED clientVars
  /\ queue # <<>> /\ Cardinality(running) < Concurrency
  /\ running' = running \cup {Begin(Dequeue(queue).task)}
  /\ queue' = Dequeue(queue).rest
  /\ UNCHANGED <<states, host, device, session, sessionAlive, resettingOutletOff,
                 revertTimers, ctxDevice, ctxNewer, notified, op, rejected, stale, committed>>

LockResultKeep(t, current) == IF t.status = "ok" THEN t.value ELSE current

LockResult(t, current) == IF t.status = "ok" THEN t.value ELSE UNKNOWN

\* the task of a lock command resumes from `await promise`
LockTaskResumes(r) ==
  /\ UNCHANGED clientVars
  /\ r \in running /\ r.kind = "lock" /\ r.status \in {"ok", "fail"}
  /\ DidWith("lockTask", <<r.value, r.status>>)
  /\ SetAcc(updateState(Acc, "lock", "LockCurrentState",
                        LockResult(r, states.LockCurrentState), FALSE, FALSE))
  /\ Finish(r)
  /\ committed' = IF r.status = "ok" /\ ~(\E t \in Live \ {r} : t.kind = "lock")
                    THEN <<r.value>> ELSE <<>>
  /\ UNCHANGED <<device, session, sessionAlive, resettingOutletOff, revertTimers,
                 ctxDevice, ctxNewer, stale>>

\* the task of a power command resumes from `await promise`
PowerTaskResumes(r) ==
  /\ UNCHANGED clientVars
  /\ r \in running /\ r.kind = "power" /\ r.status \in {"ok", "fail"}
  /\ DidWith("powerTask", <<r.api, r.status>>)
  /\ Finish(r)
  /\ notified' = {}
  /\ UNCHANGED <<states, host, device, session, sessionAlive, resettingOutletOff,
                 revertTimers, ctxDevice, ctxNewer, stale, committed>>

Next ==
  \/ Tick
  \/ \E resp \in {<<>>} \cup {<<d>> : d \in Snapshots} : UpdateDevices(resp)
  \/ \E value \in LockValues : SetLockTargetState(value)
  \/ \E value \in BOOLEAN : SetOutletOn(value)
  \/ RevertTimer
  \/ \E r \in running, ok \in BOOLEAN, resp \in Sessions : SessionSettles(r, ok, resp)
  \/ \E r \in running, outcome \in RequestOutcomes : AliveSettles(r, outcome)
  \/ \E seq \in 1..(MaxQueue + Concurrency), ok \in BOOLEAN : CommandSettles(seq, ok)
  \/ StartNext
  \/ \E r \in running : LockTaskResumes(r)
  \/ \E r \in running : PowerTaskResumes(r)

Spec == Init /\ [][Next]_vars

\* the lock axis alone: polling and lock commands, no power command
NextLock ==
  \/ Tick
  \/ \E resp \in {<<>>} \cup {<<d>> : d \in Snapshots} : UpdateDevices(resp)
  \/ \E value \in LockValues : SetLockTargetState(value)
  \/ \E r \in running, ok \in BOOLEAN, resp \in Sessions : SessionSettles(r, ok, resp)
  \/ \E r \in running, outcome \in RequestOutcomes : AliveSettles(r, outcome)
  \/ \E seq \in 1..(MaxQueue + Concurrency), ok \in BOOLEAN : CommandSettles(seq, ok)
  \/ StartNext
  \/ \E r \in running : LockTaskResumes(r)

SpecLock == Init /\ [][NextLock]_vars

\* the power axis alone: polling and power commands, no lock command
NextPower ==
  \/ Tick
  \/ \E resp \in {<<>>} \cup {<<d>> : d \in Snapshots} : UpdateDevices(resp)
  \/ \E value \in BOOLEAN : SetOutletOn(value)
  \/ RevertTimer
  \/ \E r \in running, ok \in BOOLEAN, resp \in Sessions : SessionSettles(r, ok, resp)
  \/ \E r \in running, outcome \in RequestOutcomes : AliveSettles(r, outcome)
  \/ \E seq \in 1..(MaxQueue + Concurrency), ok \in BOOLEAN : CommandSettles(seq, ok)
  \/ StartNext
  \/ \E r \in running : PowerTaskResumes(r)

SpecPower == Init /\ [][NextPower]_vars

\* what the runtime guarantees on the power axis: the interval and the timers
\* fire, continuations run, and every request sent is answered in the end; a
\* newer device snapshot and a user command are not owed by anyone
FairPower ==
  /\ WF_vars(Tick)
  /\ WF_vars(RevertTimer)
  /\ WF_vars(StartNext)
  /\ WF_vars(\E r \in running : PowerTaskResumes(r))
  /\ WF_vars(\E r \in running, ok \in BOOLEAN, resp \in Sessions : SessionSettles(r, ok, resp))
  /\ WF_vars(\E r \in running, outcome \in RequestOutcomes : AliveSettles(r, outcome))
  /\ WF_vars(\E seq \in 1..(MaxQueue + Concurrency), ok \in BOOLEAN : CommandSettles(seq, ok))

SpecPowerFair == Init /\ [][NextPower]_vars /\ FairPower

\* ---- updateState as a method: any call on any stored state ----------------
ServiceOf(state) ==
  CASE state \in {"LockCurrentState", "LockTargetState"} -> "lock"
    [] state = "On" -> "outlet"
    [] state = "ContactSensorState" -> "contactSensor"

ValuesOf(state) ==
  CASE state = "LockCurrentState" -> {UNSECURED, SECURED, UNKNOWN}
    [] state = "LockTargetState" -> LockValues
    [] state = "On" -> BOOLEAN
    [] state = "ContactSensorState" -> {CONTACT_DETECTED, CONTACT_NOT_DETECTED}

InitUpdateState ==
  /\ states \in [LockCurrentState : ValuesOf("LockCurrentState"),
                 LockTargetState : ValuesOf("LockTargetState"),
                 On : ValuesOf("On"),
                 ContactSensorState : ValuesOf("ContactSensorState")]
  /\ device = [isDisabled |-> 0]
  /\ ctxDevice = device
  /\ ctxNewer = FALSE
  /\ session = <<>>
  /\ sessionAlive = FALSE
  /\ resettingOutletOff = FALSE
  /\ revertTimers = 0
  /\ queue = <<>>
  /\ running = {}
  /\ host = [k \in StateNames |-> <<>>]
  /\ notified = {}
  /\ op = Op("constructor", <<>>)
  /\ rejected = FALSE
  /\ stale = {}
  /\ committed = <<>>
  /\ authSession = <<>>
  /\ calls = [c \in Slots |-> IdleCall]

UpdateStateCall(state, value, skipCharacteristicUpdate, forced) ==
  /\ UNCHANGED clientVars
  /\ DidWith("updateState", [state |-> state, changed |-> value # states[state],
                             skip |-> skipCharacteristicUpdate, forced |-> forced])
  /\ SetAcc(updateState(Acc, ServiceOf(state), state, value,
                        skipCharacteristicUpdate, forced))
  /\ UNCHANGED <<device, session, sessionAlive, resettingOutletOff, revertTimers,
                 ctxDevice, ctxNewer, queue, running, stale, committed>>

NextUpdateState ==
  \E state \in StateNames : \E value \in ValuesOf(state) :
    \E skipCharacteristicUpdate \in BOOLEAN, forced \in BOOLEAN :
      UpdateStateCall(state, value, skipCharacteristicUpdate, forced)

SpecUpdateState == InitUpdateState /\ [][NextUpdateState]_vars

\* ---- request() and auth() of the client ---------------------------------------
\* the answers of POST /token: a non-success status, a body that is not JSON,
\* a body without access_token, a body without expires_in, a token, and a
\* token whose expires_in gives an expiry that is not after now
AuthFailures == {"notOk", "notJson", "noAccessToken", "noExpiresIn"}
TokenResponses == AuthFailures \cup {"token", "tokenExpired"}
EndpointResponses == {"ok", "notOk", "notJson"}

\* the cache as a request() call finds it
Cached(a) == IF a = <<>> THEN "none" ELSE IF a[1].expired THEN "expired" ELSE "valid"

\* how a call ended
Outcome(call) ==
  CASE call.pc = "returned" -> "returned"
    [] call.pc = "threw" -> call.error
    [] OTHER -> "none"

authStoresFirst(a, resp) ==
  IF resp \in {"notOk", "notJson"}
    THEN [threw |-> TRUE, authSession |-> a]
    ELSE [threw |-> resp # "token", authSession |-> <<[expired |-> resp # "token"]>>]

\* auth() on the answer resp of the token request, the cache being a
auth(a, resp) ==
  IF resp \in AuthFailures
    THEN [threw |-> TRUE, authSession |-> a]
    ELSE LET stored == <<[expired |-> resp = "tokenExpired"]>> IN
         [threw |-> authSessionHeader(stored) = "none", authSession |-> stored]

\* request() is called: it sends the token request when there is no header
\* to attach, the endpoint request otherwise
Request(c, expect) ==
  LET cached == Cached(authSession)
      retry == Outcome(calls[c]) = "AuthError"
  IN
  /\ calls[c].pc \in {"idle", "returned", "threw"}
  /\ calls' = [calls EXCEPT ![c] =
       IF authSessionHeader(authSession) = "none"
         THEN Call("auth", cached, 1, 0, "none", expect, "none", retry)
         ELSE Call("fetch", cached, 0, 1, authSessionHeader(authSession), expect,
                   "none", retry)]
  /\ UNCHANGED authSession
  /\ UNCHANGED accessoryVars

\* the token request of call c is answered: auth() throws, or request() goes on
\* to send the endpoint request
AuthResponds(c, resp) ==
  LET r == auth(authSession, resp) IN
  /\ calls[c].pc = "auth"
  /\ authSession' = r.authSession
  /\ calls' = [calls EXCEPT ![c] =
       IF r.threw
         THEN [@ EXCEPT !.pc = "threw", !.error = "AuthError"]
         ELSE [@ EXCEPT !.pc = "fetch", !.sent = @ + 1,
                        !.header = authSessionHeader(r.authSession)]]
  /\ UNCHANGED accessoryVars

EndpointRespondsReauth(c, resp) ==
  /\ calls[c].pc = "fetch"
  /\ IF resp = "notOk"
       THEN /\ authSession' = <<>>
            /\ calls' = [calls EXCEPT ![c] = [@ EXCEPT !.pc = "auth", !.auths = @ + 1]]
       ELSE /\ authSession' = authSession
            /\ calls' = [calls EXCEPT ![c] =
                 IF resp = "notJson" /\ calls[c].expect
                   THEN [@ EXCEPT !.pc = "threw", !.error = "Error"]
                   ELSE [@ EXCEPT !.pc = "returned"]]
  /\ UNCHANGED accessoryVars

\* the endpoint request of call c is answered
EndpointResponds(c, resp) ==
  /\ calls[c].pc = "fetch"
  /\ calls' = [calls EXCEPT ![c] =
       IF resp = "notOk" \/ (resp = "notJson" /\ calls[c].expect)
         THEN [@ EXCEPT !.pc = "threw", !.error = "Error"]
         ELSE [@ EXCEPT !.pc = "returned"]]
  /\ UNCHANGED authSession
  /\ UNCHANGED accessoryVars

\* time passes the expiry of the cached auth session
Expire ==
  /\ authSession # <<>> /\ ~authSession[1].expired
  /\ authSession' = <<[expired |-> TRUE]>>
  /\ UNCHANGED calls
  /\ UNCHANGED accessoryVars

NextApi ==
  \/ \E c \in Slots, expect \in BOOLEAN : Request(c, expect)
  \/ \E c \in Slots, resp \in TokenResponses : AuthResponds(c, resp)
  \/ \E c \in Slots, resp \in EndpointResponses : EndpointResponds(c, resp)
  \/ Expire

\* the client alone, the accessory as constructed on one device snapshot
InitApi == Init /\ device = [isDisabled |-> 0]

SpecApi == InitApi /\ [][NextApi]_vars

\* ---- properties ---------------------------------------------------------------
TypeOK ==
  /\ states.LockCurrentState \in {UNSECURED, SECURED, UNKNOWN}
  /\ states.LockTargetState \in LockValues
  /\ states.On \in BOOLEAN
  /\ revertTimers \in 0..MaxTimers
  /\ Len(queue) <= MaxQueue

\* requests to the remote API that have been sent and not answered
ApiCallsInFlight ==
  Cardinality({t \in Live : t.kind = "check" /\ t.pc \in {"session", "alive"}})
  + Cardinality({t \in Live : t.kind # "check" /\ t.status = "pending"})

\* C1: the remote API calls made for the queued tasks occur in the order the
\* tasks were enqueued and never overlap: at most one call is in flight, and a
\* task still waiting in the queue has not made its call yet.
C1_ApiCallsFollowQueueOrder ==
  /\ ApiCallsInFlight <= 1
  /\ \A i \in 1..Len(queue) : queue[i].status = "none"

\* C2: tasks start in the order they were added and at most one task body is
\* executing: every executing task was admitted before every waiting task, the
\* waiting tasks are in admission order, and no two bodies execute together.
C2_FifoOneAtATime ==
  /\ Cardinality(running) <= 1
  /\ \A r \in running : \A i \in 1..Len(queue) : r.seq < queue[i].seq
  /\ \A i \in 1..Len(queue) : \A j \in 1..Len(queue) : i < j => queue[i].seq < queue[j].seq

C2_Witness ==
  /\ Len(queue) = 2
  /\ \E r \in running : r.kind = "lock" /\ r.status = "pending" /\ r.seq = 1
  /\ queue[1].kind = "lock" /\ queue[2].kind = "lock"

\* C3: a failure of a remote call made for a queued task is caught inside the
\* task: the promise of no queued task rejects.
C3_NoTaskRejects == rejected = FALSE

\* C4: an accepted setLockTargetState(v) notifies the host of LockTargetState = v
\* at once and invokes miniDisable (SECURED) or miniEnable (UNSECURED); when
\* the task of the command finishes, LockCurrentState is v after a successful
\* call and UNKNOWN after a failed one.
C4_LockCommand ==
  /\ op.name = "setLockTargetState" =>
       /\ states.LockTargetState = op.arg[1]
       /\ Notified("LockTargetState")
       /\ host.LockTargetState = <<op.arg[1]>>
       /\ \E t \in Live :
            /\ t.seq = QueueLoad /\ t.kind = "lock" /\ t.value = op.arg[1]
            /\ t.api = (IF op.arg[1] = SECURED THEN "miniDisable" ELSE "miniEnable")
  /\ op.name = "lockTask" =>
       states.LockCurrentState = (IF op.arg[2] = "ok" THEN op.arg[1] ELSE UNKNOWN)

C4_Witness ==
  /\ op.name = "lockTask" /\ op.arg = <<SECURED, "fail">>
  /\ states.LockCurrentState = UNKNOWN
  /\ host.LockCurrentState = <<UNKNOWN>>

\* C5: setLockTargetState(value) returns early exactly when value equals both
\* the stored LockTargetState and the stored LockCurrentState.
C5_IgnoredOnlyWhenBothEqual ==
  ~MicrotaskPending =>
    \A value \in LockValues :
      LockIgnored(value) <=>
        (value = states.LockTargetState /\ value = states.LockCurrentState)

\* C6: right after a reconciliation pass LockCurrentState is SECURED when the
\* device snapshot has isDisabled = 1 and UNSECURED otherwise, whatever it was.
C6_LockCurrentFollowsDevice ==
  op.name = "checkSession" =>
    states.LockCurrentState = (IF device.isDisabled = 1 THEN SECURED ELSE UNSECURED)

C6_Witness ==
  /\ op = Op("checkSession", <<UNKNOWN>>)
  /\ device.isDisabled = 1
  /\ states.LockCurrentState = SECURED

\* C7: right after a reconciliation pass On is true exactly when there is a
\* session that is not paused, and ContactSensorState is CONTACT_DETECTED
\* exactly when the alive flag fetched by the task is true.
C7_OnAndContactDerived ==
  op.name = "checkSession" =>
    /\ states.On = (IF session = <<>> THEN FALSE ELSE ~session[1].IsPaused)
    /\ states.ContactSensorState = CONTACT_DETECTED <=> sessionAlive
    /\ states.ContactSensorState = CONTACT_NOT_DETECTED <=> ~sessionAlive

C7_Witness ==
  /\ op.name = "checkSession"
  /\ device.isDisabled = 0
  /\ session = <<[IsPaused |-> TRUE]>>
  /\ sessionAlive
  /\ states.LockCurrentState = UNSECURED
  /\ states.On = FALSE
  /\ states.ContactSensorState = CONTACT_DETECTED

\* C8: the host is never sent, without forced, the value it was last sent for
\* the same characteristic.
C8_NoRepeatedNotification == \A n \in notified : n.fresh

\* C9 as stated: an updateState call with forced = TRUE always notifies the
\* host, and a call without forced and with an unchanged value never does.
C9_ForcedAlwaysNotifies ==
  op.name = "updateState" =>
    /\ op.arg.forced => Notified(op.arg.state)
    /\ (~op.arg.forced /\ ~op.arg.changed) => ~Notified(op.arg.state)

\* C9 amended: an updateState call with forced = TRUE and
\* skipCharacteristicUpdate = FALSE always notifies the host, also of an
\* unchanged value; a call with skipCharacteristicUpdate = TRUE never does, and
\* neither does a call without forced and with an unchanged value.
C9_ForcedNotifiesUnlessSkipped ==
  op.name = "updateState" =>
    /\ (op.arg.forced /\ ~op.arg.skip) => Notified(op.arg.state)
    /\ op.arg.skip => ~Notified(op.arg.state)
    /\ (~op.arg.forced /\ ~op.arg.changed) => ~Notified(op.arg.state)

C9_Witness ==
  /\ op.name = "updateState"
  /\ op.arg.forced /\ ~op.arg.skip /\ ~op.arg.changed
  /\ Notified(op.arg.state)

\* C10: every reconciliation pass notifies the host of LockTargetState, equal
\* to the recomputed LockCurrentState.
C10_TargetNotifiedOnEveryPass ==
  op.name = "checkSession" =>
    /\ Notified("LockTargetState")
    /\ host.LockTargetState = <<states.LockCurrentState>>

\* a user lock command is in flight: its task is waiting or executing (the
\* enable/disable call is outstanding from the handler until the task resumes)
LockCommandInFlight == \E t \in Live : t.kind = "lock"

\* C11: whenever no user lock command is in flight, the stored LockTargetState
\* equals the stored LockCurrentState, under any interleaving of checkSession
\* tasks with lock commands and after successful and failed commands alike.
C11_TargetEqualsCurrentWhenIdle ==
  ~LockCommandInFlight => states.LockTargetState = states.LockCurrentState

\* C12: a setOutletOn(true) call made while the alive flag is false makes no
\* pause/unpause call and enqueues no task, and leaves a debounce timer
\* pending; when the timer fires the stored On is false and the host's Outlet
\* On characteristic has been set back to false.
C12_RevertWhenNotAlive ==
  [][ /\ (~sessionAlive /\ SetOutletOn(TRUE)) =>
           /\ queue' = queue /\ running' = running
           /\ states' = states
           /\ revertTimers' > 0
      /\ RevertTimer =>
           /\ states'.On = FALSE
           /\ host'.On = <<FALSE>> ]_vars

\* C13: the resettingOutletOff guard swallows only the re-entrant setOutletOn
\* made by a revert's setValue(false): a setOutletOn call of the user never
\* finds the guard set, whenever it comes.
C13_GuardNeverSwallowsUserCall ==
  [][ \A value \in BOOLEAN :
        SetOutletOn(value) => OutletBranch(value, states.On) # "suppressed" ]_vars

\* C14: a setOutletOn(v) call made while alive with v different from the stored
\* On stores and notifies On = v at once and invokes sessionUnpause (v true) or
\* sessionPause (v false); when the call has failed, the task of the command
\* only logs: it leaves the stored On, and the host, as they are.
C14_PowerCommand ==
  [][ /\ \A value \in BOOLEAN :
           (sessionAlive /\ value # states.On /\ SetOutletOn(value)) =>
             /\ states'.On = value
             /\ host'.On = <<value>>
             /\ Notified("On")'
             /\ \E t \in Live' :
                  /\ t.seq = QueueLoad' /\ t.kind = "power" /\ t.status = "pending"
                  /\ t.api = (IF value THEN "sessionUnpause" ELSE "sessionPause")
      /\ \A r \in running :
           (r.kind = "power" /\ r.status = "fail" /\ PowerTaskResumes(r)) =>
             /\ states' = states
             /\ host' = host
             /\ notified' = {} ]_vars

C14_Witness ==
  /\ op.name = "powerTask" /\ op.arg[1] = "sessionUnpause" /\ op.arg[2] = "fail"
  /\ states.On = TRUE
  /\ host.On = <<TRUE>>

\* C15: a request() call that finds no cached auth session, or one whose expiry
\* is not after now, makes exactly one authentication request, and makes it
\* before it sends the endpoint request; a call that finds a session whose
\* expiry is in the future makes no authentication request and attaches the
\* cached Bearer header.
C15_AuthOnlyWhenNeeded ==
  \A c \in Slots :
    calls[c].pc # "idle" =>
      /\ calls[c].cached \in {"none", "expired"} =>
           /\ calls[c].auths = 1
           /\ calls[c].pc = "auth" => calls[c].sent = 0
      /\ calls[c].cached = "valid" =>
           /\ calls[c].auths = 0
           /\ calls[c].sent = 1
           /\ calls[c].header = "Bearer"

C15_Witness ==
  \E c \in Slots :
    /\ calls[c].cached = "expired"
    /\ calls[c].pc = "returned"
    /\ calls[c].auths = 1 /\ calls[c].sent = 1 /\ calls[c].header = "Bearer"

\* C16: when the token request is answered with a non-success status, a body
\* that does not parse, or a body without access_token or without expires_in,
\* the request() call fails with AuthError without sending the endpoint
\* request and the cached auth session is left as it was; a request() call
\* that finds no header to attach authenticates again.
C16_AuthFailure ==
  [][ \A c \in Slots :
        /\ \A resp \in AuthFailures :
             AuthResponds(c, resp) =>
               /\ authSession' = authSession
               /\ calls'[c].pc = "threw"
               /\ calls'[c].error = "AuthError"
               /\ calls'[c].sent = 0
        /\ \A expect \in BOOLEAN :
             (Request(c, expect) /\ Cached(authSession) # "valid") =>
               /\ calls'[c].pc = "auth"
               /\ calls'[c].auths = 1 ]_vars

\* a call that authenticates again after the slot's previous call failed with
\* AuthError, the cache still empty
C16_Witness ==
  \E c \in Slots :
    /\ calls[c].retry
    /\ calls[c].pc = "auth"
    /\ calls[c].cached = "none"
    /\ authSession = <<>>

\* C17: client.sessionAlive() never fails: it gives true when its request
\* succeeds and false when the request fails in any way, an AuthError and a
\* non-success status included, and with a false result the checkSession task
\* still runs its reconciliation pass and finishes without rejecting.
C17_SessionAliveNeverFails ==
  [][ \A r \in running : \A outcome \in RequestOutcomes :
        AliveSettles(r, outcome) =>
          /\ ~rejected'
          /\ sessionAlive' = (outcome = "returned")
          /\ op'.name = "checkSession"
          /\ states'.LockCurrentState = (IF device.isDisabled = 1 THEN SECURED ELSE UNSECURED)
          /\ states'.LockTargetState = states'.LockCurrentState
          /\ states'.ContactSensorState =
               (IF outcome = "returned" THEN CONTACT_DETECTED ELSE CONTACT_NOT_DETECTED)
          /\ r \notin running' ]_vars

\* a pass that ran on a false result after the flag had been true
C17_Witness ==
  /\ op.name = "checkSession"
  /\ ~sessionAlive /\ ~rejected
  /\ states.ContactSensorState = CONTACT_NOT_DETECTED
  /\ host.ContactSensorState = <<CONTACT_NOT_DETECTED>>
  /\ Notified("ContactSensorState")

\* C18: once the task of a successful lock command has stored LockCurrentState =
\* v, a reconciliation pass that computes from a device snapshot fetched
\* before the command's call was answered does not change LockCurrentState
\* away from v: the completion of the command refreshes the snapshot.
C18_StaleSnapshotKeepsCommand ==
  [][ \A r \in running : \A outcome \in RequestOutcomes :
        (AliveSettles(r, outcome) /\ committed # <<>> /\ "device" \in stale) =>
          states'.LockCurrentState = committed[1] ]_vars

\* C19: after the pause/unpause call of a power command has failed, and
\* without a further user command, a checkSession task eventually runs a
\* reconciliation pass, which stores On = (there is a session and it is not
\* paused) as the remote reports it.
C19_PollAfterFailedPowerCommand ==
  (op.name = "powerTask" /\ op.arg[2] = "fail")
    ~> \/ /\ op.name = "checkSession"
          /\ states.On = (IF session = <<>> THEN FALSE ELSE ~session[1].IsPaused)
       \/ op.name = "setOutletOn"

\* a step of the body of a queued task
TaskStep ==
  \/ \E r \in running, ok \in BOOLEAN, resp \in Sessions : SessionSettles(r, ok, resp)
  \/ \E r \in running, outcome \in RequestOutcomes : AliveSettles(r, outcome)
  \/ \E r \in running : LockTaskResumes(r)
  \/ \E r \in running : PowerTaskResumes(r)

\* C20: the accessory state (LockCurrentState, LockTargetState, On,
\* ContactSensorState) is written only by the body of a queued task: no user
\* set-handler, timer callback or polling tick writes it outside the queue.
C20_StateWrittenOnlyInTasks ==
  [][ states' # states => TaskStep ]_vars

\* the request() calls whose token request has been sent and not answered
AuthInFlight == {c \in Slots : calls[c].pc = "auth"}

\* C21: no two authentication requests are in flight at the same time on the
\* shared client: with the token missing or expired, overlapping callers cause
\* one re-authentication, not one each.
C21_SingleAuthInFlight == Cardinality(AuthInFlight) <= 1

\* C22: a polling tick that finds queue.size + queue.pending > 0 is skipped
\* entirely: a step that adopts the context's snapshot, brings lastUpdated up
\* to date or is the tick that enqueues checkSession starts from an empty and
\* idle queue, so a tick never adds a checkSession task to a queue that is
\* not empty; and a step of a tick on a busy queue changes nothing.
C22_TickSkippedWhenBusy ==
  [][ /\ (device' # device \/ (ctxNewer /\ ~ctxNewer')
            \/ (op'.name = "tick" /\ op.name # "tick")) => QueueLoad = 0
      /\ (Tick /\ QueueLoad > 0) => UNCHANGED vars ]_vars

\* a tick finds a newer snapshot, not yet adopted, and the queue busy
C22_Witness ==
  /\ ~MicrotaskPending
  /\ ctxNewer /\ device # ctxDevice
  /\ QueueLoad > 0
  /\ op.name # "tick"

\* C23: one request() call sends at most one endpoint request and makes at
\* most one authentication request; a non-success answer of the endpoint, an
\* authorization failure included, makes the call fail without authenticating
\* again or sending again, and leaves the cached auth session as it was.
C23_NoRetry ==
  [][ \A c \in Slots :
        /\ calls'[c].sent <= 1
        /\ calls'[c].auths <= 1
        /\ EndpointResponds(c, "notOk") =>
             /\ calls'[c].pc = "threw"
             /\ calls'[c].error = "Error"
             /\ calls'[c].sent = calls[c].sent
             /\ calls'[c].auths = calls[c].auths
             /\ authSession' = authSession ]_vars

\* a call that authenticated, sent its request and failed on the answer, the
\* session it stored still cached
C23_Witness ==
  \E c \in Slots :
    /\ calls[c].pc = "threw" /\ calls[c].error = "Error"
    /\ calls[c].auths = 1 /\ calls[c].sent = 1
    /\ authSession = <<[expired |-> FALSE]>>

\* a reconciliation pass has just run on the device snapshot d
PassOn(d) == op.name = "checkSession" /\ device = d

\* C24: no update is lost to throttling: once a snapshot d newer than the
\* accessory's lastUpdated is published, and unless a newer one replaces it or
\* the user keeps the queue busy with commands, a later tick adopts it and
\* enqueues checkSession, so that a reconciliation pass on d eventually runs.
C24_PublishedSnapshotReconciled ==
  \A d \in Snapshots :
    (ctxNewer /\ ctxDevice = d)
      ~> \/ PassOn(d)
         \/ (ctxNewer /\ ctxDevice # d)
         \/ op.name = "setOutletOn"

\* C25: in every quiescent state (no revert timer pending; no setOutletOn call
\* is ever executing between two steps) resettingOutletOff is false, so that
\* the first setOutletOn call made afterwards while not alive schedules a revert.
C25_GuardClearWhenQuiescent == revertTimers = 0 => ~resettingOutletOff
====
